---------------------------- MODULE Spec2Model ----------------------------
(***************************************************************************)
(* Hueter-MFC-Bridge (src/src/server.ts): the task ingestion pipeline      *)
(* POST /tasks/from-mfc  ->  interpretTaskWithLio  ->                      *)
(* forwardStructuredTaskToHueter, with the helpers it calls.               *)
(*                                                                         *)
(* Strings are sequences of characters.  A character is a TLA+ string: the *)
(* characters that matter to the code (backtick, line break, blank, the    *)
(* JSON punctuation) stand for themselves, any other element ("goal",      *)
(* "T1", "json", "7") is a run of letters or digits.                       *)
(***************************************************************************)
EXTENDS Integers, Sequences, FiniteSets, TLC

(***************************************************************************)
(* JavaScript values                                                       *)
(***************************************************************************)
JSUndef == [k |-> "undefined"]
JSNull == [k |-> "null"]
JSBool(b) == [k |-> "boolean", b |-> b]
JSNum(n) == [k |-> "number", n |-> n]
JSStr(s) == [k |-> "string", s |-> s]
\* an array: its items, and the non-index properties set on it
JSArr(items, props) == [k |-> "array", items |-> items, props |-> props]
\* an object: a function from property names (strings) to values
JSObj(f) == [k |-> "object", f |-> f]

NoProps == <<>>

\* ToBoolean, as used by `!x` and `x ? a : b`
Truthy(v) ==
    CASE v.k = "undefined" -> FALSE
      [] v.k = "null" -> FALSE
      [] v.k = "boolean" -> v.b
      [] v.k = "number" -> v.n # "0"
      [] v.k = "string" -> v.s # <<>>
      [] OTHER -> TRUE

\* result of evaluating an expression: a value, or a thrown error
Value(v) == [thrown |-> FALSE, val |-> v]
Thrown(e) == [thrown |-> TRUE, err |-> e]

\* v.name : TypeError on null/undefined, undefined on a missing property
GetProp(v, name) ==
    CASE v.k \in {"undefined", "null"} -> Thrown("TypeError")
      [] v.k = "object" ->
            Value(IF name \in DOMAIN v.f THEN v.f[name] ELSE JSUndef)
      [] v.k = "array" ->
            Value(IF name \in DOMAIN v.props THEN v.props[name] ELSE JSUndef)
      [] OTHER -> Value(JSUndef)

\* v?.[0] : undefined on null/undefined, else the element at index 0
OptIndex0(v) ==
    CASE v.k \in {"undefined", "null"} -> JSUndef
      [] v.k = "array" -> IF Len(v.items) > 0 THEN v.items[1] ELSE JSUndef
      [] v.k = "string" -> IF Len(v.s) > 0 THEN JSStr(<<v.s[1]>>) ELSE JSUndef
      [] v.k = "object" ->
            IF <<"0">> \in DOMAIN v.f THEN v.f[<<"0">>] ELSE JSUndef
      [] OTHER -> JSUndef

\* v.name = x in strict mode (the file is a module): TypeError on a primitive
SetProp(v, name, x) ==
    CASE v.k = "object" -> Value(JSObj((name :> x) @@ v.f))
      [] v.k = "array" -> Value(JSArr(v.items, (name :> x) @@ v.props))
      [] OTHER -> Thrown("TypeError")

(***************************************************************************)
(* String helpers of the JavaScript runtime                                *)
(***************************************************************************)
Ws == {" ", "\n"}
\* the backtick character
Tick == "backtick"
Fence == <<Tick, Tick, Tick>>

RECURSIVE TrimStart(_)
TrimStart(s) ==
    IF Len(s) > 0 /\ s[1] \in Ws THEN TrimStart(Tail(s)) ELSE s

RECURSIVE TrimEnd(_)
TrimEnd(s) ==
    IF Len(s) > 0 /\ s[Len(s)] \in Ws
    THEN TrimEnd(SubSeq(s, 1, Len(s) - 1)) ELSE s

\* String.prototype.trim
trim(s) == TrimEnd(TrimStart(s))

\* does pat occur in s at the 0-based position p
OccursAt(s, pat, p) ==
    /\ p >= 0
    /\ p + Len(pat) <= Len(s)
    /\ SubSeq(s, p + 1, p + Len(pat)) = pat

\* String.prototype.startsWith
startsWith(s, pat) == OccursAt(s, pat, 0)

\* String.prototype.indexOf: 0-based position of the first occurrence, or -1
indexOf(s, pat) ==
    LET hits == {p \in 0..Len(s) : OccursAt(s, pat, p)} IN
    IF hits = {} THEN -1 ELSE CHOOSE p \in hits : \A q \in hits : p <= q

\* String.prototype.lastIndexOf: position of the last occurrence, or -1
lastIndexOf(s, pat) ==
    LET hits == {p \in 0..Len(s) : OccursAt(s, pat, p)} IN
    IF hits = {} THEN -1 ELSE CHOOSE p \in hits : \A q \in hits : p >= q

\* String.prototype.slice(from) and slice(0, to), for 0 <= from, to
sliceFrom(s, from) == SubSeq(s, from + 1, Len(s))
sliceTo(s, to) == SubSeq(s, 1, to)

(***************************************************************************)
(* cleanJsonText (server.ts 102-117)                                       *)
(***************************************************************************)
\* faulty variant: the closing fence is looked up from the front
cleanJsonTextFirstTicks(raw) ==
    LET text0 == trim(raw) IN
    IF startsWith(text0, Fence)
    THEN LET firstNewline == indexOf(text0, <<"\n">>)
             text1 == IF firstNewline # -1
                      THEN sliceFrom(text0, firstNewline + 1) ELSE text0
             lastTicks == indexOf(text1, Fence)
             text2 == IF lastTicks # -1
                      THEN sliceTo(text1, lastTicks) ELSE text1
         IN trim(text2)
    ELSE trim(text0)

cleanJsonText(raw) ==
    LET text0 == trim(raw) IN
    IF startsWith(text0, Fence)
    THEN LET firstNewline == indexOf(text0, <<"\n">>)
             text1 == IF firstNewline # -1
                      THEN sliceFrom(text0, firstNewline + 1) ELSE text0
             lastTicks == lastIndexOf(text1, Fence)
             text2 == IF lastTicks # -1
                      THEN sliceTo(text1, lastTicks) ELSE text1
         IN trim(text2)
    ELSE trim(text0)

(***************************************************************************)
(* JSON.parse                                                              *)
(***************************************************************************)
Numerals == {"0", "5", "7"}
Quote == "\""

RECURSIVE SkipWs(_, _)
SkipWs(s, i) == IF i <= Len(s) /\ s[i] \in Ws THEN SkipWs(s, i + 1) ELSE i

\* position of the quote that closes a string literal whose content starts
\* at i; 0 when the literal is unterminated or holds a raw line break
RECURSIVE ScanString(_, _)
ScanString(s, i) ==
    IF i > Len(s) \/ s[i] = "\n" THEN 0
    ELSE IF s[i] = Quote THEN i
    ELSE ScanString(s, i + 1)

SyntaxError == [ok |-> FALSE]
Parsed(v, n) == [ok |-> TRUE, val |-> v, next |-> n]

RECURSIVE ParseValue(_, _)
RECURSIVE ParseElements(_, _, _)
RECURSIVE ParseMembers(_, _, _)

ParseValue(s, i0) ==
    LET i == SkipWs(s, i0) IN
    IF i > Len(s) THEN SyntaxError
    ELSE IF s[i] = Quote THEN
        LET j == ScanString(s, i + 1) IN
        IF j = 0 THEN SyntaxError
        ELSE Parsed(JSStr(SubSeq(s, i + 1, j - 1)), j + 1)
    ELSE IF s[i] = "[" THEN
        LET j == SkipWs(s, i + 1) IN
        IF j <= Len(s) /\ s[j] = "]"
        THEN Parsed(JSArr(<<>>, NoProps), j + 1)
        ELSE ParseElements(s, j, <<>>)
    ELSE IF s[i] = "{" THEN
        LET j == SkipWs(s, i + 1) IN
        IF j <= Len(s) /\ s[j] = "}"
        THEN Parsed(JSObj(NoProps), j + 1)
        ELSE ParseMembers(s, j, NoProps)
    ELSE IF s[i] = "null" THEN Parsed(JSNull, i + 1)
    ELSE IF s[i] = "true" THEN Parsed(JSBool(TRUE), i + 1)
    ELSE IF s[i] = "false" THEN Parsed(JSBool(FALSE), i + 1)
    ELSE IF s[i] \in Numerals THEN Parsed(JSNum(s[i]), i + 1)
    ELSE SyntaxError

ParseElements(s, i, acc) ==
    LET r == ParseValue(s, i) IN
    IF ~r.ok THEN SyntaxError
    ELSE LET j == SkipWs(s, r.next) IN
         IF j > Len(s) THEN SyntaxError
         ELSE IF s[j] = "]"
              THEN Parsed(JSArr(Append(acc, r.val), NoProps), j + 1)
         ELSE IF s[j] = "," THEN ParseElements(s, j + 1, Append(acc, r.val))
         ELSE SyntaxError

ParseMembers(s, i0, acc) ==
    LET i == SkipWs(s, i0) IN
    IF i > Len(s) \/ s[i] # Quote THEN SyntaxError
    ELSE LET q == ScanString(s, i + 1) IN
         IF q = 0 THEN SyntaxError
         ELSE LET key == SubSeq(s, i + 1, q - 1)
                  c == SkipWs(s, q + 1)
              IN IF c > Len(s) \/ s[c] # ":" THEN SyntaxError
                 ELSE LET r == ParseValue(s, c + 1) IN
                      IF ~r.ok THEN SyntaxError
                      ELSE LET j == SkipWs(s, r.next)
                               acc2 == (key :> r.val) @@ acc
                           IN IF j > Len(s) THEN SyntaxError
                              ELSE IF s[j] = "}"
                                   THEN Parsed(JSObj(acc2), j + 1)
                              ELSE IF s[j] = ","
                                   THEN ParseMembers(s, j + 1, acc2)
                              ELSE SyntaxError

\* JSON.parse(text): the value, or a thrown SyntaxError
JSONparse(s) ==
    LET r == ParseValue(s, 1) IN
    IF r.ok /\ SkipWs(s, r.next) > Len(s)
    THEN Value(r.val) ELSE Thrown("SyntaxError")

\* what JSON.stringify keeps of a value parsed from JSON and then given
\* properties: undefined-valued properties and the non-index properties of an
\* array are dropped
Jsonify(v) ==
    CASE v.k = "object" ->
            JSObj([n \in {m \in DOMAIN v.f : v.f[m] # JSUndef} |-> v.f[n]])
      [] v.k = "array" -> JSArr(v.items, NoProps)
      [] v.k = "undefined" -> JSNull
      [] OTHER -> v

(***************************************************************************)
(* extractTextFromResponse (server.ts 72-99)                               *)
(***************************************************************************)
\* typeof v === "string"
IsString(v) == v.k = "string"

\* faulty variant: the nested text.value is taken whatever the type
extractTextBodyAnyType(completion) ==
    LET output == GetProp(completion, <<"output">>) IN
    IF output.thrown THEN output
    ELSE LET firstOutput == OptIndex0(output.val) IN
    IF ~Truthy(firstOutput) THEN Value(JSNull)
    ELSE LET firstContent == OptIndex0(GetProp(firstOutput, <<"content">>).val) IN
    IF ~Truthy(firstContent) THEN Value(JSNull)
    ELSE LET text == GetProp(firstContent, <<"text">>).val
         IN
         IF IsString(text) THEN Value(text)
         ELSE IF /\ Truthy(text)
                 /\ IsString(GetProp(text, <<"value">>).val)
              THEN Value(GetProp(text, <<"value">>).val)
         ELSE Value(JSNull)

\* the body of the try block: a value (string or null), or a thrown error
extractTextBody(completion) ==
    LET output == GetProp(completion, <<"output">>) IN
    IF output.thrown THEN output
    ELSE LET firstOutput == OptIndex0(output.val) IN
    IF ~Truthy(firstOutput) THEN Value(JSNull)
    ELSE LET firstContent == OptIndex0(GetProp(firstOutput, <<"content">>).val) IN
    IF ~Truthy(firstContent) THEN Value(JSNull)
    ELSE LET text == GetProp(firstContent, <<"text">>).val
             type == GetProp(firstContent, <<"type">>).val
         IN
         IF IsString(text) THEN Value(text)
         ELSE IF /\ type = JSStr(<<"output_text">>)
                 /\ Truthy(text)
                 /\ IsString(GetProp(text, <<"value">>).val)
              THEN Value(GetProp(text, <<"value">>).val)
         ELSE Value(JSNull)

\* try { ... } catch (err) { return null }
extractTextFromResponse(completion) ==
    LET r == extractTextBody(completion) IN
    IF r.thrown THEN JSNull ELSE r.val


(***************************************************************************)
(* Requests and provider replies the environment can produce               *)
(***************************************************************************)
\* number of ingestion requests of one run of the process
NumReqs == 2
Reqs == 1..NumReqs

P(name) == <<name>>

\* a JSON text together with the value it encodes
Lit(a) == [text |-> <<Quote, a, Quote>>, val |-> JSStr(<<a>>)]
EmptyLit == [text |-> <<Quote, Quote>>, val |-> JSStr(<<>>)]
NumLit(n) == [text |-> <<n>>, val |-> JSNum(n)]
NullLit == [text |-> <<"null">>, val |-> JSNull]

RECURSIVE JoinTexts(_)
JoinTexts(xs) ==
    IF xs = <<>> THEN <<>>
    ELSE IF Len(xs) = 1 THEN xs[1].text
    ELSE xs[1].text \o <<",", " ">> \o JoinTexts(Tail(xs))

ListLit(xs) ==
    [text |-> <<"[">> \o JoinTexts(xs) \o <<"]">>,
     val |-> JSArr([i \in DOMAIN xs |-> xs[i].val], NoProps)]

\* one member  "name": value  of an object
Member(name, x) == [name |-> P(name),
                    text |-> <<Quote, name, Quote, ":", " ">> \o x.text,
                    val |-> x.val]

ObjLit(ms) ==
    [text |-> <<"{">> \o JoinTexts(ms) \o <<"}">>,
     val |-> JSObj([n \in {ms[i].name : i \in DOMAIN ms} |->
                      (CHOOSE m \in {ms[i] : i \in DOMAIN ms} : m.name = n).val])]

\* the members of a complete structured task, originalTaskId left out
TaskMembers ==
    << Member("goal", Lit("g")),
       Member("contextSummary", Lit("c")),
       Member("knowledgeRequirements", ListLit(<<Lit("k")>>)),
       Member("subtasks", ListLit(<<Lit("a"), Lit("b")>>)),
       Member("constraints", ListLit(<<>>)),
       Member("successCriteria", ListLit(<<Lit("s")>>)),
       Member("priority", Lit("HIGH")),
       Member("recommendedNextStep", Lit("SEND_TO_HUETER")),
       Member("notesForHueter", Lit("n")) >>

WithId(x) == ObjLit(<<Member("originalTaskId", x)>> \o TaskMembers)

\* the same text inside a Markdown code fence with a language tag
Fenced(x) ==
    [text |-> Fence \o <<"json", "\n">> \o x.text \o <<"\n">> \o Fence,
     val |-> x.val]

\* a text that encodes nothing
Garbage(t) == [text |-> t, val |-> JSUndef]

\* a task that lacks fields, with subtasks and priority of the wrong type
PartialTask ==
    ObjLit(<< Member("originalTaskId", EmptyLit),
              Member("goal", Lit("g")),
              Member("subtasks", Lit("a")),
              Member("priority", Lit("URGENT")) >>)

\* texts that decode to an object or an array
DecodableTexts ==
    { ObjLit(TaskMembers),
      WithId(Lit("T9")),
      WithId(NumLit("0")),
      PartialTask,
      ListLit(<<>>) }

\* texts that decode to a primitive, or do not decode
OtherTexts ==
    { NullLit,
      NumLit("7"),
      Garbage(<<"{", Quote, "goal", Quote, ":">>),
      Garbage(<<>>) }

\* response envelope, first shape: output[0].content[0].text is the string
EnvDirect(t) ==
    JSObj(P("output") :> JSArr(<<
        JSObj(P("content") :> JSArr(<<
            JSObj(P("type") :> JSStr(P("output_text"))
                  @@ P("text") :> JSStr(t)) >>, NoProps)) >>, NoProps))

\* second shape: output[0].content[0] = {type: "output_text", text: {value}}
EnvNested(t) ==
    JSObj(P("output") :> JSArr(<<
        JSObj(P("content") :> JSArr(<<
            JSObj(P("type") :> JSStr(P("output_text"))
                  @@ P("text") :> JSObj(P("value") :> JSStr(t))) >>,
            NoProps)) >>, NoProps))

\* an envelope without any output
EnvEmpty == JSObj(P("output") :> JSArr(<<>>, NoProps))

\* what openai.responses.create can resolve to: the envelope, with the text
\* it carries (if any) and the value that text encodes (if any)
Replies ==
    {[env |-> EnvDirect(x.text), val |-> x.val] :
         x \in DecodableTexts \cup OtherTexts}
    \cup {[env |-> EnvNested(x.text), val |-> x.val] :
              x \in {Fenced(WithId(Lit("T1")))}}
    \cup {[env |-> EnvEmpty, val |-> JSUndef],
          [env |-> JSNull, val |-> JSUndef]}

\* an IncomingTask as the producer sends it
IncomingTask(id) ==
    JSObj(P("id") :> JSStr(P(id)) @@ P("state") :> JSStr(P("open"))
          @@ P("createdAt") :> JSNum("7") @@ P("updatedAt") :> JSNum("7")
          @@ P("author") :> JSStr(P("marcel")) @@ P("rawText") :> JSStr(P("do")))

\* a task whose createdAt is missing
UndatedTask ==
    JSObj(P("id") :> JSStr(P("T3")) @@ P("state") :> JSStr(P("open"))
          @@ P("author") :> JSStr(P("marcel")) @@ P("rawText") :> JSStr(P("do")))

\* task values that pass the handler's check
Tasks ==
    { IncomingTask("T1"), IncomingTask("T2"), UndatedTask,
      \* not an object: no id, no createdAt
      JSStr(P("do")) }

\* req.body after express.json()
Bodies ==
    {JSUndef, JSObj(NoProps), JSObj(P("task") :> JSNull)}
    \cup {JSObj(P("task") :> t) : t \in Tasks}


(***************************************************************************)
(* interpretTaskWithLio (server.ts 119-201)                                *)
(***************************************************************************)
Returned(v) == [kind |-> "returned", val |-> v]
Threw(e) == [kind |-> "threw", err |-> e]
NotInvoked == [kind |-> "notInvoked"]

\* new Date(v).toISOString() throws RangeError on an invalid time value;
\* of the values a task holds here, undefined is the invalid one
DateIsValid(v) == v.k \in {"number", "null", "boolean"}

\* faulty variant: the check of the client (line 122) is missing
interpretStartUnguarded(client, task) ==
    IF ~DateIsValid(GetProp(task, P("createdAt")).val)
    THEN Threw("RangeError")
    ELSE [kind |-> "call"]

\* lines 122-168, up to the provider call: the promise settles at once, or
\* the call is issued
interpretStart(client, task) ==
    IF ~client THEN Returned(JSNull)
    ELSE IF ~DateIsValid(GetProp(task, P("createdAt")).val)
         THEN Threw("RangeError")
    ELSE [kind |-> "call"]

\* faulty variant: the id of the task always replaces the model's value
injectIdAlways(parsed, task) ==
    LET own == GetProp(parsed, P("originalTaskId")) IN
    IF own.thrown THEN own
    ELSE SetProp(parsed, P("originalTaskId"), GetProp(task, P("id")).val)

\* faulty variant: the id of the task is never filled in
injectIdNever(parsed, task) ==
    LET own == GetProp(parsed, P("originalTaskId")) IN
    IF own.thrown THEN own ELSE Value(parsed)

\* lines 191-193: the value returned for a decoded value
injectId(parsed, task) ==
    LET own == GetProp(parsed, P("originalTaskId")) IN
    IF own.thrown THEN own
    ELSE IF ~Truthy(own.val)
         THEN SetProp(parsed, P("originalTaskId"), GetProp(task, P("id")).val)
    ELSE Value(parsed)

\* faulty variant: no catch around JSON.parse
decodeTaskUncaught(cleaned, task) ==
    LET parsed == JSONparse(cleaned) IN
    IF parsed.thrown THEN Threw(parsed.err)
    ELSE LET r == injectId(parsed.val, task) IN
         IF r.thrown THEN Threw(r.err) ELSE Returned(r.val)

\* lines 188-200: the try block and its catch
decodeTask(cleaned, task) ==
    LET parsed == JSONparse(cleaned) IN
    IF parsed.thrown THEN Returned(JSNull)
    ELSE LET r == injectId(parsed.val, task) IN
         IF r.thrown THEN Returned(JSNull) ELSE Returned(r.val)

\* lines 169-200, from the settling of the provider call on; completion is
\* Value(envelope), or Thrown(error) when the call rejected
interpretResume(task, completion) ==
    IF completion.thrown THEN Threw(completion.err)
    ELSE LET rawText == extractTextFromResponse(completion.val) IN
         IF ~Truthy(rawText) THEN Returned(JSNull)
         ELSE decodeTask(cleanJsonText(rawText.s), task)

(***************************************************************************)
(* State                                                                   *)
(*                                                                         *)
(* The process is single-threaded: a handler runs without interruption     *)
(* from one suspension on a remote call to the next.  The suspensions are  *)
(* the provider call (line 169) and fetch (line 216), so one action is the *)
(* code run from the arrival of a request, or the settling of a remote     *)
(* call, up to the next suspension.                                        *)
(***************************************************************************)
VARIABLES
    openai,         \* is the provider client configured (line 69)
    pc,             \* per request: "idle", "awaitModel", "done"
    body,           \* per request: req.body
    completion,     \* per request: how the provider call settled
    structured,     \* per request: how interpretTaskWithLio settled
    responses,      \* per request: the responses sent on res, in order
    modelCalls,     \* per request: provider calls issued
    fwdCalls,       \* per request: fetch calls issued to the Hueter core
    fwdBody,        \* per request: the value handed to forward
    fwdState,       \* per request: "none", "pending", "ok", "notOk", "error"
    fwdPromise      \* per request: "none", "pending", "resolved", "rejected"

\* the state of the components that are exercised on their own
VARIABLES
    sanitizer,      \* cleanJsonText: its input and, once applied, its result
    extractor,      \* extractTextFromResponse: input and result
    runs,           \* the run store (line 365): run id -> Run
    runKeys,        \* the keys of the run store in insertion order
    clock,          \* the time, in milliseconds after the start
    nStarts,        \* number of POST /workflows/:id/start handled
    startedRuns,    \* the runs returned by POST /workflows/:id/start
    runReply,       \* the last response of the run endpoints
    workflows       \* GET /workflows: the remote call and the response

ingestVars == <<openai, pc, body, completion, structured, responses,
                modelCalls, fwdCalls, fwdBody, fwdState, fwdPromise>>
runVars == <<runs, runKeys, clock, nStarts, startedRuns, runReply>>
sideVars == <<sanitizer, extractor, runVars, workflows>>
vars == <<ingestVars, sideVars>>

Idle == [phase |-> "idle"]
SanitizerIdle == sanitizer = Idle
ExtractorIdle == extractor = Idle
WorkflowsIdle == workflows = Idle
\* const runs = {}  (line 365), nothing handled yet
RunsIdle ==
    /\ runs = <<>>
    /\ runKeys = <<>>
    /\ clock = 0
    /\ nStarts = 0
    /\ startedRuns = {}
    /\ runReply = Idle

Pending == [kind |-> "pending"]

\* const { task } = req.body || {}   (line 251)
taskOf(b) == GetProp(IF Truthy(b) THEN b ELSE JSObj(NoProps), P("task")).val

\* no request has arrived
NoRequests ==
    /\ pc = [r \in Reqs |-> "idle"]
    /\ body = [r \in Reqs |-> JSUndef]
    /\ completion = [r \in Reqs |-> Pending]
    /\ structured = [r \in Reqs |-> NotInvoked]
    /\ responses = [r \in Reqs |-> <<>>]
    /\ modelCalls = [r \in Reqs |-> 0]
    /\ fwdCalls = [r \in Reqs |-> 0]
    /\ fwdBody = [r \in Reqs |-> JSUndef]
    /\ fwdState = [r \in Reqs |-> "none"]
    /\ fwdPromise = [r \in Reqs |-> "none"]

\* the ingestion endpoint is not exercised
IngestIdle == openai = FALSE /\ NoRequests

Init ==
    /\ openai \in BOOLEAN
    /\ NoRequests
    /\ SanitizerIdle /\ ExtractorIdle /\ RunsIdle /\ WorkflowsIdle

(***************************************************************************)
(* POST /tasks/from-mfc (server.ts 250-302)                                *)
(***************************************************************************)
\* faulty variant: .status(400) is missing
missingTaskResponseOk ==
    [status |-> 200, body |-> [error |-> "Feld 'task' fehlt im Body."]]

\* line 254
missingTaskResponse ==
    [status |-> 400, body |-> [error |-> "Feld 'task' fehlt im Body."]]

\* lines 267-273: the value of `structured` after the try/catch
structuredAfterCatch(result) ==
    IF result.kind = "threw" THEN JSNull ELSE result.val

\* faulty variant: a failed structuring is answered with a server error
ackResponseOr500(s) ==
    IF s = JSNull
    THEN [status |-> 500, body |-> [error |-> "structuring failed"]]
    ELSE [status |-> 200,
          body |-> [ok |-> TRUE, received |-> TRUE, structuredTask |-> Jsonify(s)]]

\* lines 279-283 and 297-301: res.json(...) with the default status
ackResponse(s) ==
    [status |-> 200,
     body |-> [ok |-> TRUE, received |-> TRUE, structuredTask |-> Jsonify(s)]]

\* faulty variant: the forward does not wait for the check of line 275
shouldForwardAlways(s) == TRUE

\* line 275 negated: is the task forwarded
shouldForward(s) == Truthy(s)

\* faulty variant: the handler sends the response when the forward is done
respondAfterForward(r, result) ==
    LET s == structuredAfterCatch(result) IN
    /\ structured' = [structured EXCEPT ![r] = result]
    /\ pc' = [pc EXCEPT ![r] = "done"]
    /\ IF shouldForward(s)
       THEN /\ fwdCalls' = [fwdCalls EXCEPT ![r] = @ + 1]
            /\ fwdBody' = [fwdBody EXCEPT ![r] = Jsonify(s)]
            /\ fwdState' = [fwdState EXCEPT ![r] = "pending"]
            /\ fwdPromise' = [fwdPromise EXCEPT ![r] = "pending"]
            /\ UNCHANGED responses
       ELSE /\ responses' = [responses EXCEPT ![r] = Append(@, ackResponse(JSNull))]
            /\ UNCHANGED <<fwdCalls, fwdBody, fwdState, fwdPromise>>

\* lines 275-301: the handler from the settling of interpretTaskWithLio on
respond(r, result) ==
    LET s == structuredAfterCatch(result) IN
    /\ structured' = [structured EXCEPT ![r] = result]
    /\ pc' = [pc EXCEPT ![r] = "done"]
    /\ IF shouldForward(s)
       THEN /\ fwdCalls' = [fwdCalls EXCEPT ![r] = @ + 1]
            /\ fwdBody' = [fwdBody EXCEPT ![r] = Jsonify(s)]
            /\ fwdState' = [fwdState EXCEPT ![r] = "pending"]
            /\ fwdPromise' = [fwdPromise EXCEPT ![r] = "pending"]
            /\ responses' = [responses EXCEPT ![r] = Append(@, ackResponse(s))]
       ELSE /\ responses' = [responses EXCEPT ![r] = Append(@, ackResponse(JSNull))]
            /\ UNCHANGED <<fwdCalls, fwdBody, fwdState, fwdPromise>>

\* a request arrives: lines 250-270, up to the first suspension
Receive(r, b) ==
    /\ pc[r] = "idle"
    /\ body' = [body EXCEPT ![r] = b]
    /\ IF ~Truthy(taskOf(b))
       THEN /\ responses' = [responses EXCEPT ![r] = Append(@, missingTaskResponse)]
            /\ pc' = [pc EXCEPT ![r] = "done"]
            /\ UNCHANGED <<structured, modelCalls, fwdCalls, fwdBody,
                           fwdState, fwdPromise>>
       ELSE LET start == interpretStart(openai, taskOf(b)) IN
            IF start.kind = "call"
            THEN /\ modelCalls' = [modelCalls EXCEPT ![r] = @ + 1]
                 /\ pc' = [pc EXCEPT ![r] = "awaitModel"]
                 /\ UNCHANGED <<structured, responses, fwdCalls, fwdBody,
                                fwdState, fwdPromise>>
            ELSE /\ respond(r, start)
                 /\ UNCHANGED modelCalls
    /\ UNCHANGED <<sideVars, openai, completion>>

\* faulty variant: the task is kept in a variable shared by all requests,
\* which holds the task of the earliest request that still awaits its call
ModelReturnsSharedTask(r, env) ==
    /\ pc[r] = "awaitModel"
    /\ completion' = [completion EXCEPT ![r] = Value(env)]
    /\ LET q == CHOOSE q \in Reqs :
                    /\ pc[q] = "awaitModel"
                    /\ \A x \in Reqs : pc[x] = "awaitModel" => q <= x
       IN respond(r, interpretResume(taskOf(body[q]), Value(env)))
    /\ UNCHANGED <<sideVars, openai, body, modelCalls>>

\* the provider call resolves with an envelope: lines 169-200, 270-301
ModelReturns(r, env) ==
    /\ pc[r] = "awaitModel"
    /\ completion' = [completion EXCEPT ![r] = Value(env)]
    /\ respond(r, interpretResume(taskOf(body[r]), Value(env)))
    /\ UNCHANGED <<sideVars, openai, body, modelCalls>>

\* the provider call rejects: lines 169, 270-301
ModelThrows(r) ==
    /\ pc[r] = "awaitModel"
    /\ completion' = [completion EXCEPT ![r] = Thrown("APIError")]
    /\ respond(r, interpretResume(taskOf(body[r]), Thrown("APIError")))
    /\ UNCHANGED <<sideVars, openai, body, modelCalls>>

(***************************************************************************)
(* forwardStructuredTaskToHueter (server.ts 210-239)                       *)
(***************************************************************************)
\* fetch resolves with res.ok: lines 229-232
ForwardOk(r) ==
    /\ fwdState[r] = "pending"
    /\ fwdState' = [fwdState EXCEPT ![r] = "ok"]
    /\ fwdPromise' = [fwdPromise EXCEPT ![r] = "resolved"]
    /\ UNCHANGED <<sideVars, openai, pc, body, completion, structured, responses,
                   modelCalls, fwdCalls, fwdBody>>

\* fetch resolves with a non-OK status: lines 222-227
ForwardNotOk(r) ==
    /\ fwdState[r] = "pending"
    /\ fwdState' = [fwdState EXCEPT ![r] = "notOk"]
    /\ fwdPromise' = [fwdPromise EXCEPT ![r] = "resolved"]
    /\ UNCHANGED <<sideVars, openai, pc, body, completion, structured, responses,
                   modelCalls, fwdCalls, fwdBody>>

\* faulty variant: the failure of the forward is reported on res
ForwardErrorResponds(r) ==
    /\ fwdState[r] = "pending"
    /\ fwdState' = [fwdState EXCEPT ![r] = "error"]
    /\ fwdPromise' = [fwdPromise EXCEPT ![r] = "resolved"]
    /\ responses' = [responses EXCEPT ![r] =
          Append(@, [status |-> 502, body |-> [error |-> "forward failed"]])]
    /\ UNCHANGED <<sideVars, openai, pc, body, completion, structured,
                   modelCalls, fwdCalls, fwdBody>>

\* faulty variant: no catch around fetch, the promise of forward rejects
ForwardErrorUncaught(r) ==
    /\ fwdState[r] = "pending"
    /\ fwdState' = [fwdState EXCEPT ![r] = "error"]
    /\ fwdPromise' = [fwdPromise EXCEPT ![r] = "rejected"]
    /\ UNCHANGED <<sideVars, openai, pc, body, completion, structured, responses,
                   modelCalls, fwdCalls, fwdBody>>

\* fetch rejects: the catch of lines 233-238
ForwardError(r) ==
    /\ fwdState[r] = "pending"
    /\ fwdState' = [fwdState EXCEPT ![r] = "error"]
    /\ fwdPromise' = [fwdPromise EXCEPT ![r] = "resolved"]
    /\ UNCHANGED <<sideVars, openai, pc, body, completion, structured, responses,
                   modelCalls, fwdCalls, fwdBody>>

Next ==
    \/ \E r \in Reqs, b \in Bodies : Receive(r, b)
    \/ \E r \in Reqs, p \in Replies : ModelReturns(r, p.env)
    \/ \E r \in Reqs : ModelThrows(r)
    \/ \E r \in Reqs : ForwardOk(r)
    \/ \E r \in Reqs : ForwardNotOk(r)
    \/ \E r \in Reqs : ForwardError(r)

Spec == Init /\ [][Next]_vars


(***************************************************************************)
(* StructuredHueterTask (server.ts 35-54)                                  *)
(***************************************************************************)
Priorities == {"LOW", "MEDIUM", "HIGH", "CRITICAL"}
NextSteps == {"SEND_TO_HUETER", "ASK_HUMAN_FOR_INFO", "NEEDS_DESIGN_DECISION",
              "JUST_INFORMATION", "UNKNOWN"}

IsStringList(v) ==
    /\ v.k = "array"
    /\ \A i \in DOMAIN v.items : v.items[i].k = "string"

IsOneOf(v, names) == v.k = "string" /\ \E n \in names : v.s = P(n)

IsStructuredHueterTask(v) ==
    /\ v.k = "object"
    /\ {P("originalTaskId"), P("goal"), P("contextSummary"),
        P("knowledgeRequirements"), P("subtasks"), P("constraints"),
        P("successCriteria"), P("priority"), P("recommendedNextStep"),
        P("notesForHueter")} \subseteq DOMAIN v.f
    /\ \A n \in {"originalTaskId", "goal", "contextSummary", "notesForHueter"} :
          v.f[P(n)].k = "string"
    /\ \A n \in {"knowledgeRequirements", "subtasks", "constraints",
                 "successCriteria"} : IsStringList(v.f[P(n)])
    /\ IsOneOf(v.f[P("priority")], Priorities)
    /\ IsOneOf(v.f[P("recommendedNextStep")], NextSteps)
    /\ P("notesForHuman") \in DOMAIN v.f => v.f[P("notesForHuman")].k = "string"

(***************************************************************************)
(* Vocabulary of the properties                                            *)
(***************************************************************************)
\* request r has arrived with a task in its body
CarriesTask(r) ==
    pc[r] # "idle" /\ \E t \in Tasks : body[r] = JSObj(P("task") :> t)

\* request r has arrived with an empty body or a body without a task field
LacksTaskField(r) ==
    pc[r] # "idle" /\ body[r] \in {JSUndef, JSObj(NoProps)}

\* the id of the task of request r (a task that reached the provider is an
\* object with an id)
TaskId(r) == body[r].f[P("task")].f[P("id")]

\* the provider call of request r has settled / resolved / rejected
ModelSettled(r) == completion[r] # Pending
ModelResolved(r) == ModelSettled(r) /\ ~completion[r].thrown
ModelRejected(r) == ModelSettled(r) /\ completion[r].thrown

\* the value encoded by the text of the reply to request r; undefined when
\* the reply carries no text or the text encodes nothing
ReplyValue(r) == (CHOOSE p \in Replies : p.env = completion[r].val).val

\* structure() has returned a task for request r
ProducedTask(r) == structured[r].kind = "returned" /\ structured[r].val # JSNull

\* structure() has returned none for request r
ReturnedNone(r) == structured[r].kind = "returned" /\ structured[r].val = JSNull

\* the acknowledgement that carries the value v
Ack(v) == [status |-> 200,
           body |-> [ok |-> TRUE, received |-> TRUE, structuredTask |-> v]]

\* the originalTaskId carried by a value structure() returned
OidOf(v) ==
    IF v.k = "object"
    THEN IF P("originalTaskId") \in DOMAIN v.f
         THEN v.f[P("originalTaskId")] ELSE JSUndef
    ELSE IF v.k = "array" /\ P("originalTaskId") \in DOMAIN v.props
         THEN v.props[P("originalTaskId")] ELSE JSUndef

\* values that count as no value: missing, null, empty string
EmptyValues == {JSUndef, JSNull, JSStr(<<>>)}
\* the values JavaScript treats as false
FalsyValues == EmptyValues \cup {JSNum("0"), JSBool(FALSE)}


(***************************************************************************)
(* Properties of the ingestion endpoint                                    *)
(***************************************************************************)

\* C1: a request whose body carries a task is answered 200 with ok and
\* received true, whatever structuring did (provider not configured, call
\* threw, no text, text not JSON, success); structuredTask is null exactly
\* when structuring did not produce a task.
AckWhateverStructuringDid ==
    \A r \in Reqs : CarriesTask(r) =>
        /\ pc[r] = "done" => responses[r] # <<>>
        /\ \A i \in DOMAIN responses[r] :
              LET x == responses[r][i] IN
              /\ x.status = 200
              /\ x.body.ok = TRUE
              /\ x.body.received = TRUE
              /\ (x.body.structuredTask = JSNull) <=> ~ProducedTask(r)

\* C1: the provider call of a request threw and the request was answered
AnsweredAfterProviderThrew ==
    \E r \in Reqs : CarriesTask(r) /\ ModelRejected(r) /\ responses[r] # <<>>

\* C2: each request gets exactly one response: at most one is ever sent, one
\* has been sent as soon as the handler is through (in particular once the
\* model call has settled), and nothing that happens later (the forward
\* succeeding, failing with a status, failing in transport, steps of other
\* requests) sends another or changes the one sent.
ExactlyOneResponse ==
    /\ [](\A r \in Reqs :
            /\ Len(responses[r]) <= 1
            /\ (pc[r] = "done") <=> (Len(responses[r]) = 1)
            /\ ModelSettled(r) => Len(responses[r]) = 1)
    /\ [][\A r \in Reqs :
            responses[r] # <<>> => responses'[r] = responses[r]]_vars

\* C2: two requests have been answered and the forward of one of them has
\* failed in transport after its response
TwoAnsweredOneForwardFailed ==
    \E r1, r2 \in Reqs :
        /\ r1 # r2
        /\ fwdState[r1] = "error"
        /\ Len(responses[r1]) = 1
        /\ Len(responses[r2]) = 1

\* C3: a request without a task field (or with an empty body) is answered
\* 400 with an error message and is processed no further: no provider call,
\* no forward.
MissingTaskRejected ==
    \A r \in Reqs : LacksTaskField(r) =>
        /\ Len(responses[r]) = 1
        /\ responses[r][1].status = 400
        /\ DOMAIN responses[r][1].body = {"error"}
        /\ pc[r] = "done"
        /\ structured[r] = NotInvoked
        /\ modelCalls[r] = 0
        /\ completion[r] = Pending
        /\ fwdCalls[r] = 0
        /\ fwdState[r] = "none"

\* C3: a request with the body {} has been handled while the provider is
\* configured
EmptyObjectBodyHandled ==
    \E r \in Reqs : openai /\ pc[r] = "done" /\ body[r] = JSObj(NoProps)

\* C4: the forward of a request is initiated only after its model call has
\* settled and only if structuring produced a task; never while the model
\* call is pending, never when structuring yielded none or threw.
ForwardOnlyAfterStructuring ==
    \A r \in Reqs :
        /\ (fwdCalls[r] > 0 \/ fwdState[r] # "none") =>
              /\ ModelResolved(r)
              /\ ProducedTask(r)
        /\ pc[r] = "awaitModel" => fwdCalls[r] = 0 /\ fwdState[r] = "none"
        /\ (ReturnedNone(r) \/ structured[r].kind = "threw") =>
              fwdCalls[r] = 0 /\ fwdState[r] = "none"

\* C4: one request has its forward in flight while the model call of another
\* request is still pending
ForwardInFlightBesidePendingModel ==
    \E r1, r2 \in Reqs :
        fwdState[r1] = "pending" /\ pc[r2] = "awaitModel"

\* C5: forward never raises: for each outcome downstream (success status,
\* other status, transport error) its promise resolves; and the response to
\* a request whose task was structured is 200 with that task in every state
\* of the forward.
ForwardNeverAffectsCaller ==
    \A r \in Reqs :
        /\ fwdPromise[r] # "rejected"
        /\ fwdState[r] \in {"ok", "notOk", "error"} => fwdPromise[r] = "resolved"
        /\ ProducedTask(r) =>
              /\ responses[r] = <<Ack(Jsonify(structured[r].val))>>
              /\ fwdState[r] \in {"pending", "ok", "notOk", "error"}

\* C5: the forwards of two requests have ended differently, one in a
\* transport error and one in a status that is not OK
ForwardsFailedBothWays ==
    \E r1, r2 \in Reqs : fwdState[r1] = "error" /\ fwdState[r2] = "notOk"

\* C6: without the provider credential every structure() returns none, no
\* provider call is ever issued, and so no forward either.
NoCredentialNoCalls ==
    ~openai =>
        \A r \in Reqs :
            /\ modelCalls[r] = 0
            /\ completion[r] = Pending
            /\ fwdCalls[r] = 0
            /\ fwdState[r] = "none"
            /\ structured[r] \in {NotInvoked, [kind |-> "returned", val |-> JSNull]}
            /\ CarriesTask(r) => ReturnedNone(r)

\* C6: without the credential, every request carried a task and is answered
AllTasksAnsweredWithoutCredential ==
    /\ ~openai
    /\ \A r \in Reqs : CarriesTask(r) /\ pc[r] = "done" /\ ReturnedNone(r)


(***************************************************************************)
(* Properties of structure() = interpretTaskWithLio                        *)
(***************************************************************************)

\* C7, as stated: when the provider call throws, or returns a body that
\* cannot be decoded, structure() returns none to its caller and does not
\* raise.
StructureReturnsNoneOnFailure ==
    \A r \in Reqs :
        (ModelSettled(r) /\ (completion[r].thrown \/ ReplyValue(r) = JSUndef))
            => ReturnedNone(r)

\* C7, amended: when the provider call throws, structure() raises that
\* exception and the ingestion handler catches it and answers 200 with a
\* null task; when the provider returns a body that cannot be decoded,
\* structure() returns none.
StructureRaisesOnlyProviderError ==
    \A r \in Reqs :
        /\ ModelRejected(r) =>
              /\ structured[r] = [kind |-> "threw", err |-> completion[r].err]
              /\ responses[r] = <<Ack(JSNull)>>
        /\ (ModelResolved(r) /\ ReplyValue(r) = JSUndef) => ReturnedNone(r)

\* C7: one provider call has thrown and another has returned a body that
\* cannot be decoded
ThrownAndUndecodable ==
    \E r1, r2 \in Reqs :
        /\ ModelRejected(r1)
        /\ ModelResolved(r2) /\ ReplyValue(r2) = JSUndef

\* the task structure() must return for a reply that decodes to the object
\* m, when the model's originalTaskId counts as omitted iff it is in none
ExpectedTask(m, id, none) ==
    IF OidOf(m) \in none
    THEN JSObj([n \in DOMAIN m.f \cup {P("originalTaskId")} |->
                   IF n = P("originalTaskId") THEN id ELSE m.f[n]])
    ELSE m

\* C8, as stated: for a reply that decodes to a JSON object, the returned
\* task has originalTaskId equal to the task's id when the model left the
\* field out (absent or empty) and equal to the model's value otherwise; all
\* other fields are returned unchanged.
IdInjectedWhenAbsentOrEmpty ==
    \A r \in Reqs :
        (ModelResolved(r) /\ ReplyValue(r).k = "object") =>
            structured[r] = [kind |-> "returned",
                             val |-> ExpectedTask(ReplyValue(r), TaskId(r),
                                                  EmptyValues)]

\* C8, amended: for a reply that decodes to a JSON object, the returned
\* task has originalTaskId equal to the task's id when the model's value is
\* absent or falsy (null, empty string, 0, false) and equal to the model's
\* value otherwise; all other fields are returned unchanged.
IdInjectedWhenFalsy ==
    \A r \in Reqs :
        (ModelResolved(r) /\ ReplyValue(r).k = "object") =>
            structured[r] = [kind |-> "returned",
                             val |-> ExpectedTask(ReplyValue(r), TaskId(r),
                                                  FalsyValues)]

\* C8: the model answered one request with originalTaskId 0 and another
\* with an id of its own
ZeroIdAndOwnId ==
    \E r1, r2 \in Reqs :
        /\ ModelResolved(r1) /\ ReplyValue(r1).k = "object"
        /\ OidOf(ReplyValue(r1)) = JSNum("0")
        /\ ModelResolved(r2) /\ ReplyValue(r2).k = "object"
        /\ OidOf(ReplyValue(r2)) = JSStr(P("T9"))

\* C9, as stated: every task structure() returns, and so every task put in
\* a response or handed to forward, has originalTaskId equal to the id of
\* the request's task.
IdAlwaysTheSourceId ==
    \A r \in Reqs : ProducedTask(r) =>
        /\ OidOf(structured[r].val) = TaskId(r)
        /\ fwdBody[r].k = "object" => OidOf(fwdBody[r]) = TaskId(r)
        /\ \A i \in DOMAIN responses[r] :
              responses[r][i].body.structuredTask.k = "object" =>
                  OidOf(responses[r][i].body.structuredTask) = TaskId(r)

\* C9, amended: the value structure() returns has originalTaskId equal to
\* the id of the request's task unless the model's output carried a
\* non-empty (truthy) originalTaskId of its own, which is kept even when it
\* differs from that id; the response and the forward carry that value.
IdTheSourceIdUnlessModelGaveOne ==
    \A r \in Reqs : ProducedTask(r) =>
        /\ OidOf(structured[r].val) \in {TaskId(r), OidOf(ReplyValue(r))}
        /\ OidOf(structured[r].val) # TaskId(r) =>
              OidOf(ReplyValue(r)) \notin FalsyValues
        /\ OidOf(ReplyValue(r)) \in FalsyValues =>
              OidOf(structured[r].val) = TaskId(r)
        /\ fwdBody[r] = Jsonify(structured[r].val)
        /\ \A i \in DOMAIN responses[r] :
              responses[r][i].body.structuredTask = Jsonify(structured[r].val)

\* C9: a task was returned with an id that is not the id of the request's
\* task, and it is in the response and in the forward
ForeignIdForwarded ==
    \E r \in Reqs :
        /\ ProducedTask(r)
        /\ OidOf(structured[r].val) # TaskId(r)
        /\ fwdState[r] # "none"
        /\ OidOf(fwdBody[r]) # TaskId(r)
        /\ responses[r] # <<>>

\* C10: structure() returns none or a complete, correctly typed task: a
\* text that is malformed, that is JSON but not an object, or that is an
\* object lacking a field or holding one of the wrong type yields none, and
\* no such value is returned, put in a response or forwarded.
OnlyCompleteTasksReturned ==
    \A r \in Reqs :
        /\ structured[r].kind = "returned" =>
              \/ structured[r].val = JSNull
              \/ IsStructuredHueterTask(structured[r].val)
        /\ fwdState[r] # "none" => IsStructuredHueterTask(fwdBody[r])
        /\ \A i \in DOMAIN responses[r] :
              responses[r][i].status = 200 =>
                  \/ responses[r][i].body.structuredTask = JSNull
                  \/ IsStructuredHueterTask(responses[r][i].body.structuredTask)


(***************************************************************************)
(* cleanJsonText on its own                                                *)
(***************************************************************************)
\* longest payload given to the sanitizer
MaxPayloadLen == 3
SanChars == {"a", " ", "\n", Tick}
Payloads == UNION {[1..n -> SanChars] : n \in 0..MaxPayloadLen}

\* the ways of putting a payload in a fence: blanks before the opening
\* fence, a language tag, a line break after the opening fence line, a line
\* break before the closing fence, blanks after it
Wrappings ==
    [lead : {<<>>, <<" ", "\n">>},
     tag : {<<>>, <<"json">>},
     nl : BOOLEAN,
     beforeClose : {<<>>, <<"\n">>},
     trail : {<<>>, <<"\n", " ">>}]

Wrap(payload, w) ==
    w.lead \o Fence \o w.tag \o (IF w.nl THEN <<"\n">> ELSE <<>>)
        \o payload \o w.beforeClose \o Fence \o w.trail

NoWrap == [lead |-> <<>>, tag |-> <<>>, nl |-> FALSE,
           beforeClose |-> <<>>, trail |-> <<>>]

SanitizerInputs ==
    {[phase |-> "ready", fenced |-> TRUE, payload |-> p, wrap |-> w,
      raw |-> Wrap(p, w), out |-> <<>>] : p \in Payloads, w \in Wrappings}
    \cup {[phase |-> "ready", fenced |-> FALSE, payload |-> p, wrap |-> NoWrap,
           raw |-> p, out |-> <<>>] : p \in Payloads}

SanInit ==
    /\ IngestIdle /\ ExtractorIdle /\ RunsIdle /\ WorkflowsIdle
    /\ sanitizer \in SanitizerInputs

\* cleanJsonText(raw) is called (line 186)
Sanitize ==
    /\ sanitizer.phase = "ready"
    /\ sanitizer' = [sanitizer EXCEPT !.phase = "done",
                                      !.out = cleanJsonText(sanitizer.raw)]
    /\ UNCHANGED <<ingestVars, extractor, runVars, workflows>>

SanNext == Sanitize

SpecSanitizer == SanInit /\ [][SanNext]_vars

\* C11, as stated: for every payload and every fenced wrapping of it (with
\* or without language tag, with or without a line break after the opening
\* fence, with or without blanks around) the sanitizer returns what it
\* returns for the payload alone, the trimmed payload; a text whose trimmed
\* form does not begin with a fence is returned trimmed.
\* (Payloads that begin with a fence themselves are left aside here.)
FenceStrippedHoweverWrapped ==
    sanitizer.phase = "done" =>
        /\ (sanitizer.fenced /\ ~startsWith(trim(sanitizer.payload), Fence)) =>
              /\ sanitizer.out = trim(sanitizer.payload)
              /\ sanitizer.out = cleanJsonText(sanitizer.payload)
        /\ ~startsWith(trim(sanitizer.raw), Fence) =>
              sanitizer.out = trim(sanitizer.raw)

\* C11, amended: for every payload and every fenced wrapping of it whose
\* opening fence line (with or without language tag) ends in a line break,
\* the sanitizer returns exactly the trimmed payload, which is also its
\* result for the payload alone unless the payload begins with a fence
\* itself; a text whose trimmed form does not begin with a fence is
\* returned trimmed.
FenceStrippedAfterLineBreak ==
    sanitizer.phase = "done" =>
        /\ (sanitizer.fenced /\ sanitizer.wrap.nl) =>
              sanitizer.out = trim(sanitizer.payload)
        /\ (sanitizer.fenced /\ sanitizer.wrap.nl
               /\ ~startsWith(trim(sanitizer.payload), Fence)) =>
              sanitizer.out = cleanJsonText(sanitizer.payload)
        /\ ~startsWith(trim(sanitizer.raw), Fence) =>
              sanitizer.out = trim(sanitizer.raw)

\* C11: a payload that holds backticks and blanks of its own has been taken
\* out of a fence with a language tag
TaggedFenceStripped ==
    /\ sanitizer.phase = "done"
    /\ sanitizer.fenced /\ sanitizer.wrap.nl
    /\ sanitizer.wrap.tag # <<>>
    /\ \E i \in DOMAIN sanitizer.payload : sanitizer.payload[i] = Tick
    /\ sanitizer.out # sanitizer.payload

(***************************************************************************)
(* The workflow runs: POST /workflows/:id/start, GET /runs/:runId and      *)
(* GET /runs over the run store.                                           *)
(***************************************************************************)

MaxClock == 1
MaxStarts == 3

\* the route parameter :id, any string is accepted (line 461)
WorkflowIds == {P("dev-start"), P("other")}

Digits == <<"0", "1", "2", "3", "4", "5", "6", "7", "8", "9">>
Millis(t) ==
    <<Digits[((t \div 100) % 10) + 1], Digits[((t \div 10) % 10) + 1],
      Digits[(t % 10) + 1]>>

\* new Date().toISOString() at t milliseconds after the start of the second
toISOString(t) ==
    <<"2025", "-", "01", "-", "01", "T", "10", ":", "00", ":", "00", ".">>
        \o Millis(t) \o <<"Z">>

\* now.replace(/[:.]/g, "-")
replaceColonsAndDots(str) ==
    [i \in 1..Len(str) |-> IF str[i] \in {":", "."} THEN "-" ELSE str[i]]

\* `run-${now.replace(/[:.]/g, "-")}-${id}`
runIdOf(now, id) == <<"run", "-">> \o replaceColonsAndDots(now) \o <<"-">> \o id

startRunBothPending(id, now) ==
    [runId |-> runIdOf(now, id),
     workflowId |-> id,
     status |-> "running",
     startedAt |-> now,
     finishedAt |-> JSNull,
     steps |-> <<[id |-> id \o <<"-step-1">>, state |-> "pending"],
                 [id |-> id \o <<"-step-2">>, state |-> "pending"]>>]

\* the run built at lines 465-477
startRun(id, now) ==
    [runId |-> runIdOf(now, id),
     workflowId |-> id,
     status |-> "running",
     startedAt |-> now,
     finishedAt |-> JSNull,
     steps |-> <<[id |-> id \o <<"-step-1">>, state |-> "running"],
                 [id |-> id \o <<"-step-2">>, state |-> "pending"]>>]

storeRunOnlyLatest(store, run) == run.runId :> run

\* runs[runId] = run
storeRun(store, run) == (run.runId :> run) @@ store

\* the insertion order of the keys: a key that is assigned again keeps its place
keysAfterStore(keys, key) ==
    IF \E i \in 1..Len(keys) : keys[i] = key THEN keys ELSE Append(keys, key)

\* the properties every object literal inherits from Object.prototype
ObjectPrototypeNames ==
    {P("constructor"), P("toString"), P("toLocaleString"), P("valueOf"),
     P("hasOwnProperty"), P("isPrototypeOf"), P("propertyIsEnumerable"),
     P("__proto__"), P("__defineGetter__"), P("__defineSetter__"),
     P("__lookupGetter__"), P("__lookupSetter__")}

\* runs[runId]: an own property, else one inherited from Object.prototype
\* (a function or the prototype object, all of them truthy), else undefined
lookupRun(store, key) ==
    IF key \in DOMAIN store THEN [found |-> "own", run |-> store[key]]
    ELSE IF key \in ObjectPrototypeNames THEN [found |-> "inherited", name |-> key]
    ELSE [found |-> "none"]

\* GET /runs/:runId
getRunResponse(store, runId) ==
    LET run == lookupRun(store, runId) IN
    IF run.found = "none"
    THEN [status |-> 404, body |-> [error |-> "Run not found", runId |-> runId]]
    ELSE IF run.found = "own"
    THEN [status |-> 200, body |-> run.run]
    ELSE [status |-> 200, body |-> [inherited |-> run.name]]

\* GET /runs: Object.values(runs)
listRunsResponse(store, keys) ==
    [status |-> 200, body |-> [i \in 1..Len(keys) |-> store[keys[i]]]]

\* the run ids that requests ask for: of runs that may exist, of none, and
\* names that every object inherits
RunIdsAsked ==
    {runIdOf(toISOString(t), id) : t \in 0..MaxClock, id \in WorkflowIds}
        \cup {P("does-not-exist"), P("constructor"), P("toString"), P("__proto__")}

RunsInit ==
    /\ IngestIdle /\ SanitizerIdle /\ ExtractorIdle /\ WorkflowsIdle
    /\ RunsIdle

StartWorkflow(id) ==
    /\ nStarts < MaxStarts
    /\ LET now == toISOString(clock)
           run == startRun(id, now)
       IN /\ runs' = storeRun(runs, run)
          /\ runKeys' = keysAfterStore(runKeys, run.runId)
          /\ startedRuns' = startedRuns \cup {run}
          /\ runReply' = [phase |-> "replied", op |-> "start", arg |-> id, status |-> 202, body |-> run]
    /\ nStarts' = nStarts + 1
    /\ UNCHANGED <<clock, ingestVars, sanitizer, extractor, workflows>>

GetRun(runId) ==
    /\ runReply' = [phase |-> "replied", op |-> "get", arg |-> runId] @@ getRunResponse(runs, runId)
    /\ UNCHANGED <<runs, runKeys, clock, nStarts, startedRuns>>
    /\ UNCHANGED <<ingestVars, sanitizer, extractor, workflows>>

ListRuns ==
    /\ runReply' = [phase |-> "replied", op |-> "list", arg |-> <<>>] @@ listRunsResponse(runs, runKeys)
    /\ UNCHANGED <<runs, runKeys, clock, nStarts, startedRuns>>
    /\ UNCHANGED <<ingestVars, sanitizer, extractor, workflows>>

\* a millisecond passes
ClockTick ==
    /\ clock < MaxClock
    /\ clock' = clock + 1
    /\ UNCHANGED <<runs, runKeys, nStarts, startedRuns, runReply>>
    /\ UNCHANGED <<ingestVars, sanitizer, extractor, workflows>>

RunsNext ==
    \/ \E id \in WorkflowIds : StartWorkflow(id)
    \/ \E runId \in RunIdsAsked : GetRun(runId)
    \/ ListRuns
    \/ ClockTick

SpecRuns == RunsInit /\ [][RunsNext]_vars

\* vocabulary of the properties of the run endpoints
StoredIds == DOMAIN runs
ListedRuns == {listRunsResponse(runs, runKeys).body[i] : i \in 1..Len(runKeys)}

\* C12: a start answers 202 with a run that is running, unfinished, of the
\* workflow asked for, with a running first and a pending second step; and
\* from then on, whatever start, get and list did since (a start that gave
\* the same run id included), get of its run id answers with an equal record
\* and list contains it.
StartedRunStaysReadable ==
    /\ runReply.phase # "idle" /\ runReply.op = "start" =>
          /\ runReply.status = 202
          /\ runReply.body.workflowId = runReply.arg
          /\ runReply.body.status = "running"
          /\ runReply.body.finishedAt = JSNull
          /\ Len(runReply.body.steps) = 2
          /\ runReply.body.steps[1].state = "running"
          /\ runReply.body.steps[2].state = "pending"
          /\ runReply.body.steps[1].id = runReply.arg \o <<"-step-1">>
          /\ runReply.body.steps[2].id = runReply.arg \o <<"-step-2">>
          /\ runReply.body \in startedRuns
    /\ \A run \in startedRuns :
          /\ getRunResponse(runs, run.runId) = [status |-> 200, body |-> run]
          /\ run \in ListedRuns


\* C12 witness: a run was started twice under one run id, then read and listed
RestartedRunRead ==
    /\ nStarts = 2
    /\ Cardinality(startedRuns) = 1
    /\ runReply.phase = "replied" /\ runReply.op = "get"
    /\ runReply.status = 200
    /\ runReply.body \in startedRuns

\* C13: a get of a run id under which no start stored a run (names that the
\* store object inherits, such as constructor or toString, included) answers
\* 404 with an error and the id asked for; 200 is answered only for ids that
\* a start stored.
UnknownRunIdNotFound ==
    runReply.phase = "replied" /\ runReply.op = "get" =>
        /\ runReply.arg \notin {run.runId : run \in startedRuns} =>
              /\ runReply.status = 404
              /\ runReply.body = [error |-> "Run not found", runId |-> runReply.arg]
        /\ runReply.status = 200 => runReply.body \in startedRuns

\* C14: the store holds one entry per start performed, that is every start
\* gave a run id that no earlier start gave.
OneEntryPerStart == Cardinality(StoredIds) = nStarts

\* C16: every stored run is running, unfinished, with a running and a
\* pending step, and stored under its own run id; no step removes or changes
\* a stored run, and a step that is not a start leaves the store as it was.
StoredRunsNeverChange ==
    /\ [](\A key \in StoredIds :
            /\ runs[key].status = "running"
            /\ runs[key].finishedAt = JSNull
            /\ Len(runs[key].steps) = 2
            /\ runs[key].steps[1].state = "running"
            /\ runs[key].steps[2].state = "pending"
            /\ runs[key].runId = key)
    /\ [][/\ \A key \in StoredIds : key \in DOMAIN runs' /\ runs'[key] = runs[key]
          /\ nStarts' = nStarts => runs' = runs]_vars

\* C16 witness: three starts, two of them under one run id, and a list
ThreeStartsTwoRunsListed ==
    /\ nStarts = 3
    /\ Cardinality(StoredIds) = 2
    /\ runReply.phase = "replied" /\ runReply.op = "list"
    /\ Len(runReply.body) = 2

(***************************************************************************)
(* GET /workflows: the list of the remote MFC, else the built-in list.     *)
(***************************************************************************)

WfDef(id, label, description) ==
    [id |-> id, label |-> label, description |-> description]

\* fallbackWorkflows (lines 350-362)
fallbackWorkflows ==
    << WfDef(<<"dev-start">>, <<"Dev-Start (MFC)">>,
             <<"Startet die Dev-Umgebung">>),
       WfDef(<<"hueter-dev-session">>, <<"Hueter-Dev-Session">>,
             <<"Gefuehrte Session">>) >>

\* String(v)
RECURSIVE String(_)
RECURSIVE JoinItems(_)
JoinItems(items) ==
    IF items = <<>> THEN <<>>
    ELSE (IF items[1].k \in {"undefined", "null"} THEN <<>> ELSE String(items[1]))
         \o (IF Len(items) = 1 THEN <<>> ELSE <<",">> \o JoinItems(Tail(items)))
String(v) ==
    CASE v.k = "string" -> v.s
      [] v.k = "number" -> <<v.n>>
      [] v.k = "boolean" -> IF v.b THEN <<"true">> ELSE <<"false">>
      [] v.k = "undefined" -> <<"undefined">>
      [] v.k = "null" -> <<"null">>
      [] v.k = "array" -> JoinItems(v.items)
      [] OTHER -> <<"[object Object]">>

\* a || b
OrElse(a, b) == IF Truthy(a) THEN a ELSE b

\* the arrow function given to map (lines 439-443)
mapWorkflow(w) ==
    LET id == GetProp(w, P("id")) IN
    IF id.thrown THEN id
    ELSE Value(WfDef(String(id.val),
                     String(OrElse(GetProp(w, P("label")).val, id.val)),
                     String(OrElse(GetProp(w, P("description")).val, JSStr(<<>>)))))

\* the end handler of httpRequestToMfc (lines 392-406): the promise resolves
\* with null or the parsed body, or rejects
onEnd(raw) ==
    IF raw = <<>> THEN Value(JSNull)
    ELSE LET parsed == JSONparse(raw) IN
         IF parsed.thrown THEN Thrown("Error") ELSE parsed

\* the handler of GET /workflows after the await (lines 430-453)
workflowsResponse(result) ==
    IF result.thrown THEN [status |-> 200, body |-> fallbackWorkflows]
    ELSE LET mfcData == result.val IN
    IF ~Truthy(mfcData) \/ GetProp(mfcData, P("workflows")).val.k # "array"
    THEN [status |-> 200, body |-> fallbackWorkflows]
    ELSE LET ws == GetProp(mfcData, P("workflows")).val.items
             mapped == [i \in 1..Len(ws) |-> mapWorkflow(ws[i])]
         IN IF \E i \in 1..Len(ws) : mapped[i].thrown
            THEN [status |-> 200, body |-> fallbackWorkflows]
            ELSE [status |-> 200, body |-> [i \in 1..Len(ws) |-> mapped[i].val]]

\* elements of the remote list: the JSON text, its value, and the workflow
\* definition it stands for when it can be mapped
FullWf ==
    [lit |-> ObjLit(<<Member("id", Lit("w1")), Member("label", Lit("L")),
                      Member("description", Lit("d"))>>),
     mappable |-> TRUE,
     expect |-> WfDef(<<"w1">>, <<"L">>, <<"d">>)]
IdOnlyWf ==
    [lit |-> ObjLit(<<Member("id", Lit("w2"))>>),
     mappable |-> TRUE,
     expect |-> WfDef(<<"w2">>, <<"w2">>, <<>>)]
NumIdWf ==
    [lit |-> ObjLit(<<Member("id", NumLit("7")), Member("label", EmptyLit)>>),
     mappable |-> TRUE,
     expect |-> WfDef(<<"7">>, <<"7">>, <<>>)]
NoIdWf ==
    [lit |-> ObjLit(<<Member("label", Lit("L"))>>),
     mappable |-> TRUE,
     expect |-> WfDef(<<"undefined">>, <<"L">>, <<>>)]
NullWf == [lit |-> NullLit, mappable |-> FALSE, expect |-> [none |-> TRUE]]

WorkflowLists ==
    {<<>>, <<FullWf>>, <<FullWf, IdOnlyWf>>, <<NumIdWf>>, <<NoIdWf>>,
     <<NullWf>>, <<FullWf, NullWf>>}

ListBody(ws) ==
    [text |-> ObjLit(<<Member("workflows",
                              ListLit([i \in 1..Len(ws) |-> ws[i].lit]))>>).text,
     kind |-> IF \E i \in 1..Len(ws) : ~ws[i].mappable
              THEN "unmappable" ELSE "list",
     expect |-> [i \in 1..Len(ws) |-> ws[i].expect]]

\* the bodies the remote answers with
RemoteBodies ==
    {ListBody(ws) : ws \in WorkflowLists}
        \cup {[text |-> <<>>, kind |-> "empty", expect |-> <<>>],
              [text |-> <<"<", "html", ">">>, kind |-> "notjson", expect |-> <<>>],
              [text |-> <<"{", Quote, "workflows", Quote, ":", "[">>,
               kind |-> "notjson", expect |-> <<>>],
              [text |-> NullLit.text, kind |-> "noarray", expect |-> <<>>],
              [text |-> ObjLit(<<Member("error", Lit("down"))>>).text,
               kind |-> "noarray", expect |-> <<>>],
              [text |-> ObjLit(<<Member("workflows", Lit("w1"))>>).text,
               kind |-> "noarray", expect |-> <<>>],
              [text |-> ListLit(<<FullWf.lit>>).text,
               kind |-> "noarray", expect |-> <<>>]}

\* the status codes the remote answers with
RemoteStatuses == {200, 404, 500}

WorkflowsInit ==
    /\ IngestIdle /\ SanitizerIdle /\ ExtractorIdle /\ RunsIdle
    /\ WorkflowsIdle

\* GET /workflows arrives, the request to the remote is sent (lines 387-410)
WorkflowsRequest ==
    /\ workflows.phase \in {"idle", "replied"}
    /\ workflows' = [phase |-> "awaiting"]
    /\ UNCHANGED <<ingestVars, sanitizer, extractor, runVars>>

\* the remote answers with a status and starts to send a body
RemoteResponds(status, b) ==
    /\ workflows.phase = "awaiting"
    /\ workflows' = [phase |-> "receiving", transport |-> "up", status |-> status,
                     sent |-> b, rest |-> b.text, raw |-> <<>>]
    /\ UNCHANGED <<ingestVars, sanitizer, extractor, runVars>>

\* the body arrives whole or in two chunks
ChunkSizes ==
    IF workflows.phase = "receiving"
    THEN {Len(workflows.rest), (Len(workflows.rest) + 1) \div 2}
    ELSE {}

\* res.on("data"): raw += chunk
RemoteData(n) ==
    /\ workflows.phase = "receiving"
    /\ n \in 1..Len(workflows.rest)
    /\ workflows' = [workflows EXCEPT
                        !.raw = @ \o SubSeq(workflows.rest, 1, n),
                        !.rest = SubSeq(@, n + 1, Len(@))]
    /\ UNCHANGED <<ingestVars, sanitizer, extractor, runVars>>

\* res.on("end"), and the handler resumed with the outcome of the promise
RemoteEnd ==
    /\ workflows.phase = "receiving"
    /\ workflows.rest = <<>>
    /\ workflows' = [phase |-> "replied", transport |-> "up",
                     status |-> workflows.status, sent |-> workflows.sent,
                     reply |-> workflowsResponse(onEnd(workflows.raw))]
    /\ UNCHANGED <<ingestVars, sanitizer, extractor, runVars>>

\* req.on("error"): the promise rejects, the handler resumes in its catch
RemoteError ==
    /\ workflows.phase = "awaiting"
    /\ workflows' = [phase |-> "replied", transport |-> "error",
                     reply |-> workflowsResponse(Thrown("Error"))]
    /\ UNCHANGED <<ingestVars, sanitizer, extractor, runVars>>

WorkflowsNext ==
    \/ WorkflowsRequest
    \/ \E status \in RemoteStatuses, b \in RemoteBodies : RemoteResponds(status, b)
    \/ \E n \in ChunkSizes : RemoteData(n)
    \/ RemoteEnd
    \/ RemoteError

SpecWorkflows == WorkflowsInit /\ [][WorkflowsNext]_vars

\* C15: GET /workflows answers 200; with the built-in list whenever the
\* remote call failed (transport error, empty body, body that is not JSON or
\* has no workflows array, an element that cannot be mapped, or a status
\* outside 200..299), and with the mapped remote list otherwise.
FallbackOnAnyRemoteFailure ==
    workflows.phase = "replied" =>
        /\ workflows.reply.status = 200
        /\ IF \/ workflows.transport = "error"
              \/ workflows.status \notin 200..299
              \/ workflows.sent.kind # "list"
           THEN workflows.reply.body = fallbackWorkflows
           ELSE workflows.reply.body = workflows.sent.expect

(***************************************************************************)
(* Further properties of the ingestion endpoint                            *)
(***************************************************************************)

\* C17: with the provider configured, a request that carries a task issues
\* exactly one provider call; it issues one forward call when structuring
\* produced a task and none otherwise, and the forward, issued by the time
\* the response is sent, carries the structured task of the response.
OneProviderCallOneForward ==
    \A r \in Reqs :
        CarriesTask(r) /\ openai =>
            /\ modelCalls[r] = 1
            /\ fwdCalls[r] = IF ProducedTask(r) THEN 1 ELSE 0
            /\ ProducedTask(r) => responses[r] = <<Ack(fwdBody[r])>>

\* C20: with requests interleaved in any order, the structured task in the
\* response of a request and the one handed to its forward are the same
\* value, made of the fields decoded from the reply to that request's own
\* provider call, with originalTaskId, where the reply left it out, equal to
\* the id of that request's own task; nothing in it stems from another
\* request.
OwnDataOnly ==
    \A r \in Reqs : ProducedTask(r) =>
        LET t == responses[r][1].body.structuredTask
            own == ReplyValue(r)
        IN /\ Len(responses[r]) = 1
           /\ fwdBody[r] = t
           /\ t.k = own.k
           /\ t.k = "array" => t.items = own.items
           /\ t.k = "object" =>
                 /\ DOMAIN own.f \subseteq DOMAIN t.f
                 /\ \A n \in DOMAIN t.f :
                       \/ n \in DOMAIN own.f /\ t.f[n] = own.f[n]
                       \/ n = P("originalTaskId") /\ t.f[n] = TaskId(r)
                 /\ P("originalTaskId") \notin DOMAIN own.f =>
                       t.f[P("originalTaskId")] = TaskId(r)

\* C20 witness: two requests with different tasks and different replies,
\* each answered with its own task id injected, one forward still pending
\* and the other answered
TwoRequestsEachItsOwnId ==
    \E r1, r2 \in Reqs :
        /\ ProducedTask(r1) /\ ProducedTask(r2)
        /\ TaskId(r1) # TaskId(r2)
        /\ ReplyValue(r1) # ReplyValue(r2)
        /\ OidOf(ReplyValue(r1)) = JSUndef
        /\ OidOf(ReplyValue(r2)) = JSNum("0")
        /\ OidOf(responses[r1][1].body.structuredTask) = TaskId(r1)
        /\ OidOf(responses[r2][1].body.structuredTask) = TaskId(r2)
        /\ fwdState[r1] = "pending" /\ fwdState[r2] = "ok"

\* the provider call of request r completes: it returns or throws
ModelCompletes(r) ==
    \/ \E p \in Replies : ModelReturns(r, p.env)
    \/ ModelThrows(r)

\* the request whose provider call is assumed to complete
Watched == CHOOSE r \in Reqs : \A q \in Reqs : r <= q

\* The ingestion endpoint where the provider call of one request completes
\* whenever it is pending. Nothing is assumed of the forward calls nor of the
\* provider calls of the other requests: they may stay pending for ever.
SpecLive == Spec /\ WF_vars(ModelCompletes(Watched))

\* C18: a request whose provider call completes is answered, even if no
\* forward call is ever answered and the provider calls of the other requests
\* stay pending; and a request whose forward is pending has its response
\* already.
AnsweredOnceModelCompletes ==
    /\ (pc[Watched] = "awaitModel") ~> (Len(responses[Watched]) = 1)
    /\ [](\A r \in Reqs : fwdState[r] = "pending" => Len(responses[r]) = 1)

\* C18 witness: every request is answered while every forward is pending
AllAnsweredAllForwardsPending ==
    \A r \in Reqs : Len(responses[r]) = 1 /\ fwdState[r] = "pending"

(***************************************************************************)
(* extractTextFromResponse on its own, over the shapes of envelopes.       *)
(***************************************************************************)

\* the type and text fields an item may have (undefined: the field is absent)
ItemTypes == {JSUndef, JSStr(P("output_text")), JSStr(P("refusal"))}
ItemTexts ==
    {JSUndef, JSNull, JSNum("5"), JSStr(P("hi")), JSStr(<<>>),
     JSObj(NoProps),
     JSObj(P("value") :> JSStr(P("hi"))),
     JSObj(P("value") :> JSStr(<<>>)),
     JSObj(P("value") :> JSNum("5"))}

\* an object with the fields that are not undefined
ObjOf(fields) ==
    JSObj([n \in {m \in DOMAIN fields : fields[m] # JSUndef} |-> fields[n]])

ContentItem(type, text) == ObjOf(P("type") :> type @@ P("text") :> text)

\* an item with a text of its own, placed where the extractor must not look
Decoy == ContentItem(JSStr(P("output_text")), JSStr(P("decoy")))

List(items) == JSArr(items, NoProps)
OutputOf(content) == ObjOf(P("content") :> content)
EnvelopeOf(output) == ObjOf(P("id") :> JSStr(P("resp")) @@ P("output") :> output)

\* envelopes whose first output has a first content item with the given
\* type and text
EnvelopesAround(type, text) ==
    LET x == ContentItem(type, text) IN
    { EnvelopeOf(List(<<OutputOf(List(<<x>>))>>)),
      EnvelopeOf(List(<<OutputOf(List(<<x, Decoy>>))>>)),
      EnvelopeOf(List(<<OutputOf(List(<<x>>)), OutputOf(List(<<Decoy>>))>>)),
      \* index 0 of an object that is not an array
      EnvelopeOf(JSObj(P("0") :> OutputOf(List(<<x>>)))) }

\* envelopes without a first content item of a first output
EnvelopesWithout ==
    { JSUndef, JSNull, JSNum("5"), JSStr(P("hi")), JSBool(TRUE),
      JSObj(NoProps),
      List(<<OutputOf(List(<<Decoy>>))>>),
      OutputOf(List(<<Decoy>>)),
      EnvelopeOf(JSNull),
      EnvelopeOf(JSNum("5")),
      EnvelopeOf(JSStr(P("hi"))),
      EnvelopeOf(List(<<>>)),
      EnvelopeOf(List(<<JSNull>>)),
      EnvelopeOf(List(<<JSNull, OutputOf(List(<<Decoy>>))>>)),
      EnvelopeOf(List(<<JSObj(NoProps)>>)),
      EnvelopeOf(List(<<JSObj(NoProps), OutputOf(List(<<Decoy>>))>>)),
      EnvelopeOf(List(<<OutputOf(JSNull)>>)),
      EnvelopeOf(List(<<OutputOf(JSStr(<<>>))>>)),
      EnvelopeOf(List(<<OutputOf(List(<<>>))>>)),
      EnvelopeOf(List(<<OutputOf(List(<<>>)), OutputOf(List(<<Decoy>>))>>)),
      EnvelopeOf(List(<<OutputOf(List(<<JSNull>>))>>)),
      EnvelopeOf(List(<<OutputOf(List(<<JSNull, Decoy>>))>>)),
      EnvelopeOf(List(<<OutputOf(List(<<JSNum("0"), Decoy>>))>>)) }

ExtractorInputs ==
    UNION {{[phase |-> "ready", hasFirst |-> TRUE, type |-> type, text |-> text,
             env |-> env, out |-> JSUndef] : env \in EnvelopesAround(type, text)} :
              type \in ItemTypes, text \in ItemTexts}
    \cup {[phase |-> "ready", hasFirst |-> FALSE, type |-> JSUndef, text |-> JSUndef,
           env |-> env, out |-> JSUndef] : env \in EnvelopesWithout}

ExtractorInit ==
    /\ IngestIdle /\ SanitizerIdle /\ RunsIdle /\ WorkflowsIdle
    /\ extractor \in ExtractorInputs

Extract ==
    /\ extractor.phase = "ready"
    /\ extractor' = [extractor EXCEPT !.phase = "done",
                                      !.out = extractTextFromResponse(extractor.env)]
    /\ UNCHANGED <<ingestVars, sanitizer, runVars, workflows>>

ExtractorNext == Extract

SpecExtractor == ExtractorInit /\ [][ExtractorNext]_vars

\* C19: the extractor returns a value for every envelope: the text of the
\* first content item of the first output if it is a string; else the value
\* of that text if the item has type output_text and the value is a string;
\* else none, whatever else the envelope holds. (The first item is the one
\* at index 0.)
ExtractedTextOfFirstItem ==
    extractor.phase = "done" =>
        /\ extractor.out.k \in {"string", "null"}
        /\ extractor.out =
              IF ~extractor.hasFirst THEN JSNull
              ELSE IF extractor.text.k = "string" THEN extractor.text
              ELSE IF /\ extractor.type = JSStr(P("output_text"))
                      /\ extractor.text.k = "object"
                      /\ P("value") \in DOMAIN extractor.text.f
                      /\ extractor.text.f[P("value")].k = "string"
                   THEN extractor.text.f[P("value")]
              ELSE JSNull

\* C19 witness: the nested value of an output_text item was returned although
\* a second item and a second output carry a text of their own
NestedValueExtracted ==
    /\ extractor.phase = "done"
    /\ extractor.hasFirst
    /\ extractor.text = JSObj(P("value") :> JSStr(P("hi")))
    /\ extractor.env.k = "object"
    /\ extractor.env.f[P("output")].k = "array"
    /\ Len(extractor.env.f[P("output")].items) = 2
    /\ extractor.out = JSStr(P("hi"))

=============================================================================
